---- MODULE Spec2Model ----
(***************************************************************************)
(* Model of rest_framework_nested/relations.py:                            *)
(*   NestedHyperlinkedRelatedField (__init__, get_url, get_object,         *)
(*   to_internal_value) and NestedHyperlinkedIdentityField (__init__).     *)
(*                                                                         *)
(* Python strings that the code splits or uses as names are modelled as    *)
(* sequences of chunks: a chunk is either the underscore "_" or a word     *)
(* without underscores, so 'parent__pk' is <<"parent","_","_","pk">> and   *)
(* str.split('__') is computed, not assumed.                               *)
(***************************************************************************)
EXTENDS FiniteSets, Integers, Sequences, TLC

VARIABLES classPlk, fields, last

vars == <<classPlk, fields, last>>

(***************************************************************************)
(* Bounds of the model.                                                    *)
(***************************************************************************)
MaxFields == 2

(***************************************************************************)
(* Names (chunk sequences).                                                *)
(***************************************************************************)
PK == <<"pk">>
SLUG == <<"slug">>
PARENT == <<"parent">>
CHILD_PK == <<"child", "_", "pk">>
PARENT_PK == <<"parent", "_", "pk">>
GRAND_PK == <<"grand", "_", "pk">>
PARENT__PK == <<"parent", "_", "_", "pk">>
PARENT__PARENT__PK == <<"parent", "_", "_", "parent", "_", "_", "pk">>
PARENT___PK == <<"parent", "_", "_", "_", "pk">>
PARENT__SLUG == <<"parent", "_", "_", "slug">>

(***************************************************************************)
(* Python values: None, int, str and references to objects, in one record  *)
(* shape so that any two values can be compared.                           *)
(***************************************************************************)
NoneV == [t |-> "none", i |-> 0, s |-> "", o |-> ""]
IntV(n) == [t |-> "int", i |-> n, s |-> "", o |-> ""]
StrV(x) == [t |-> "str", i |-> 0, s |-> x, o |-> ""]
RefV(x) == [t |-> "obj", i |-> 0, s |-> "", o |-> x]

(***************************************************************************)
(* dict.update({k: v}) on a dict modelled as a function.                   *)
(***************************************************************************)
Update(d, k, v) == [x \in (DOMAIN d) \cup {k} |-> IF x = k THEN v ELSE d[x]]

EmptyDict == [x \in {} |-> NoneV]

(***************************************************************************)
(* The objects of the host application: three model classes (Child with a  *)
(* nullable foreign key parent to Parent, Parent with a nullable foreign   *)
(* key parent to Grand) and one plain object that is no model instance.    *)
(***************************************************************************)
Heap ==
  [ g1 |-> [cls |-> "Grand", attrs |-> (PK :> IntV(1))],
    p1 |-> [cls |-> "Parent", attrs |-> (PK :> IntV(1)) @@ (PARENT :> RefV("g1"))],
    p2 |-> [cls |-> "Parent", attrs |-> (PK :> IntV(3)) @@ (PARENT :> NoneV)],
    c0 |-> [cls |-> "Child",
            attrs |-> (PK :> IntV(0)) @@ (SLUG :> StrV("b")) @@ (PARENT :> NoneV)],
    c1 |-> [cls |-> "Child",
            attrs |-> (PK :> IntV(1)) @@ (SLUG :> StrV("a")) @@ (PARENT :> RefV("p1"))],
    c2 |-> [cls |-> "Child",
            attrs |-> (PK :> IntV(2)) @@ (SLUG :> StrV("a")) @@ (PARENT :> RefV("p2"))],
    u1 |-> [cls |-> "Child",
            attrs |-> (PK :> NoneV) @@ (SLUG :> StrV("c")) @@ (PARENT :> RefV("p1"))],
    u2 |-> [cls |-> "Child",
            attrs |-> (PK :> StrV("")) @@ (SLUG :> StrV("c")) @@ (PARENT :> NoneV)],
    n1 |-> [cls |-> "Plain", attrs |-> (SLUG :> StrV("d")) @@ (PARENT :> RefV("p1"))],
    n2 |-> [cls |-> "Plain", attrs |-> (PK :> IntV(2)) @@ (PARENT :> RefV("p1"))] ]

Objects == DOMAIN Heap

ChildQueryset == {"c0", "c1", "c2"}

(***************************************************************************)
(* str.split('__'): scan left to right, cut at each non-overlapping pair   *)
(* of underscores.                                                         *)
(***************************************************************************)
RECURSIVE SplitFrom(_, _, _, _)
SplitFrom(s, i, cur, acc) ==
  IF i > Len(s) THEN Append(acc, cur)
  ELSE IF s[i] = "_" /\ i + 1 <= Len(s) /\ s[i + 1] = "_"
       THEN SplitFrom(s, i + 2, <<>>, Append(acc, cur))
       ELSE SplitFrom(s, i + 1, Append(cur, s[i]), acc)

Split(s) == SplitFrom(s, 1, <<>>, <<>>)

(***************************************************************************)
(* getattr(value, name): [ok, v]; ok = FALSE stands for AttributeError.    *)
(***************************************************************************)
HasAttr(v, name) == v.t = "obj" /\ name \in DOMAIN Heap[v.o].attrs

GetAttr(v, name) ==
  IF HasAttr(v, name) THEN [ok |-> TRUE, v |-> Heap[v.o].attrs[name]]
  ELSE [ok |-> FALSE, v |-> NoneV]

(***************************************************************************)
(* reduce(getattr, [obj] + lookups)                                        *)
(***************************************************************************)
RECURSIVE ReduceGetattr(_, _)
ReduceGetattr(v, lookups) ==
  IF lookups = <<>> THEN [ok |-> TRUE, v |-> v]
  ELSE LET r == GetAttr(v, Head(lookups))
       IN IF r.ok THEN ReduceGetattr(r.v, Tail(lookups)) ELSE r

(***************************************************************************)
(* The URL conf of the host application: the keyword arguments each named  *)
(* view's pattern takes.  reverse succeeds when the kwargs it is handed    *)
(* are exactly the pattern's; otherwise it raises NoReverseMatch.          *)
(***************************************************************************)
UrlConf ==
  [ v \in {"child-detail", "child-flat"} |->
      IF v = "child-detail" THEN {PK, PARENT_PK} ELSE {PK} ]

Reverse(view_name, kwargs) ==
  IF view_name \in DOMAIN UrlConf /\ DOMAIN kwargs = UrlConf[view_name]
  THEN [ret |-> "url", exc |-> ""]
  ELSE [ret |-> "raise", exc |-> "NoReverseMatch"]

(***************************************************************************)
(* A field's parent_lookup_kwargs: a reference to the class attribute when *)
(* the constructor got none, else the dict the caller passed.  A dict that *)
(* the code iterates is a sequence of <<key, path>> pairs with distinct    *)
(* keys, in insertion order.                                               *)
(***************************************************************************)
Plk(f, cls) == IF f.shared THEN cls ELSE f.ownPlk

PlkKeys(plk) == {plk[i][1] : i \in 1..Len(plk)}

PlkPath(plk, k) == plk[CHOOSE i \in 1..Len(plk) : plk[i][1] = k][2]

\* An unsaved test that takes every falsy pk (0 too) for unsaved.
IsUnsavedFalsy(obj) ==
  /\ HasAttr(RefV(obj), PK)
  /\ GetAttr(RefV(obj), PK).v \in {NoneV, StrV(""), IntV(0)}

(***************************************************************************)
(* `hasattr(obj, 'pk') and obj.pk in (None, '')`                           *)
(***************************************************************************)
IsUnsaved(obj) ==
  /\ HasAttr(RefV(obj), PK)
  /\ GetAttr(RefV(obj), PK).v \in {NoneV, StrV("")}

(***************************************************************************)
(* The outcome of a get_url call: what it returned or raised, the calls it *)
(* made to reverse, and the reads it made on the object.                   *)
(***************************************************************************)
UrlOutcome(ret, exc, calls, reads, walked, viaSuper, unsaved) ==
  [ret |-> ret, exc |-> exc, reverseCalls |-> calls, readLookup |-> reads,
   walked |-> walked, viaSuper |-> viaSuper, unsaved |-> unsaved]

(***************************************************************************)
(* rest_framework's HyperlinkedRelatedField.get_url, which line 60 calls.  *)
(***************************************************************************)
SuperGetUrl(f, obj, reads, walked) ==
  IF IsUnsaved(obj)
  THEN UrlOutcome("None", "", <<>>, reads, walked, TRUE, TRUE)
  ELSE LET lv == GetAttr(RefV(obj), f.lookup_field)
       IN IF ~lv.ok
          THEN UrlOutcome("raise", "AttributeError", <<>>, reads + 1, walked, TRUE, FALSE)
          ELSE LET kwargs == Update(EmptyDict, f.lookup_url_kwarg, lv.v)
                   r == Reverse(f.view_name, kwargs)
               IN UrlOutcome(r.ret, r.exc,
                             <<[view |-> f.view_name, kwargs |-> kwargs]>>,
                             reads + 1, walked, TRUE, FALSE)

\* A get_url that splits the lookup on single underscores.
RECURSIVE SplitSingleFrom(_, _, _, _)
SplitSingleFrom(s, i, cur, acc) ==
  IF i > Len(s) THEN Append(acc, cur)
  ELSE IF s[i] = "_" THEN SplitSingleFrom(s, i + 1, <<>>, Append(acc, cur))
       ELSE SplitSingleFrom(s, i + 1, Append(cur, s[i]), acc)

SplitLookupSingle(underscored_lookup) == SplitSingleFrom(underscored_lookup, 1, <<>>, <<>>)

\* lookups = underscored_lookup.split('__')
SplitLookup(underscored_lookup) == Split(underscored_lookup)

(***************************************************************************)
(* The loop of get_url over list(self.parent_lookup_kwargs.keys()).        *)
(***************************************************************************)
\* A get_url loop without the try/except: the AttributeError propagates.
RECURSIVE GetUrlLoopNoExcept(_, _, _, _, _)
GetUrlLoopNoExcept(f, plk, obj, kwargs, i) ==
  IF i > Len(plk)
  THEN LET r == Reverse(f.view_name, kwargs)
       IN UrlOutcome(r.ret, r.exc, <<[view |-> f.view_name, kwargs |-> kwargs]>>,
                     1, i - 1, FALSE, FALSE)
  ELSE LET lookup_value == ReduceGetattr(RefV(obj), SplitLookup(plk[i][2]))
       IN IF ~lookup_value.ok
          THEN UrlOutcome("raise", "AttributeError", <<>>, 1, i, FALSE, FALSE)
          ELSE GetUrlLoopNoExcept(f, plk, obj,
                                  Update(kwargs, plk[i][1], lookup_value.v), i + 1)

RECURSIVE GetUrlLoop(_, _, _, _, _)
GetUrlLoop(f, plk, obj, kwargs, i) ==
  IF i > Len(plk)
  THEN LET r == Reverse(f.view_name, kwargs)
       IN UrlOutcome(r.ret, r.exc, <<[view |-> f.view_name, kwargs |-> kwargs]>>,
                     1, i - 1, FALSE, FALSE)
  ELSE LET parent_lookup_kwarg == plk[i][1]
           underscored_lookup == plk[i][2]
           lookups == SplitLookup(underscored_lookup)
           lookup_value == ReduceGetattr(RefV(obj), lookups)
       IN IF ~lookup_value.ok
          THEN SuperGetUrl(f, obj, 1, i)
          ELSE GetUrlLoop(f, plk, obj,
                          Update(kwargs, parent_lookup_kwarg, lookup_value.v), i + 1)

GetUrl(f, plk, obj) ==
  IF IsUnsaved(obj)
  THEN UrlOutcome("None", "", <<>>, 0, 0, FALSE, TRUE)
  ELSE LET lookup_value == GetAttr(RefV(obj), f.lookup_field)
       IN IF ~lookup_value.ok
          THEN UrlOutcome("raise", "AttributeError", <<>>, 1, 0, FALSE, FALSE)
          ELSE GetUrlLoop(f, plk, obj,
                          Update(EmptyDict, f.lookup_url_kwarg, lookup_value.v), 1)

(***************************************************************************)
(* The ORM of the host application.  Schema gives each model's fields;     *)
(* a filter key is split on '__' and followed through the foreign keys.    *)
(* Lookup suffixes (exact, in, ...) are not modelled: a component that is  *)
(* no field of the model it is applied to is a FieldError.                 *)
(***************************************************************************)
IntField == [ty |-> "int", to |-> ""]
StrField == [ty |-> "str", to |-> ""]
FkField(cls) == [ty |-> "fk", to |-> cls]

Schema ==
  [ Child |-> (PK :> IntField) @@ (SLUG :> StrField) @@ (PARENT :> FkField("Parent")),
    Parent |-> (PK :> IntField) @@ (PARENT :> FkField("Grand")),
    Grand |-> (PK :> IntField) ]

\* The type of the field an ORM path ends at; ok = FALSE stands for FieldError.
RECURSIVE ResolvePath(_, _)
ResolvePath(cls, comps) ==
  IF Head(comps) \notin DOMAIN Schema[cls] THEN [ok |-> FALSE, ty |-> ""]
  ELSE LET fld == Schema[cls][Head(comps)]
       IN IF Len(comps) = 1
          THEN [ok |-> TRUE, ty |-> IF fld.ty = "fk" THEN "int" ELSE fld.ty]
          ELSE IF fld.ty = "fk" THEN ResolvePath(fld.to, Tail(comps))
               ELSE [ok |-> FALSE, ty |-> ""]

Digits == <<"0", "1", "2", "3">>

\* Field.get_prep_value: int(value) for integer fields, str(value) for text;
\* ok = FALSE stands for the ValueError (or TypeError) of a value that has
\* not the form of the field.  None is kept (exact None is IS NULL).
ToPython(ty, v) ==
  IF v.t = "none" THEN [ok |-> TRUE, v |-> v]
  ELSE IF v.t = "obj" THEN [ok |-> FALSE, v |-> v]
  ELSE IF ty = "int"
       THEN IF v.t = "int" THEN [ok |-> TRUE, v |-> v]
            ELSE IF \E n \in 1..Len(Digits) : Digits[n] = v.s
                 THEN [ok |-> TRUE,
                       v |-> IntV((CHOOSE n \in 1..Len(Digits) : Digits[n] = v.s) - 1)]
                 ELSE [ok |-> FALSE, v |-> v]
       ELSE IF v.t = "str" THEN [ok |-> TRUE, v |-> v]
            ELSE IF v.i + 1 \in 1..Len(Digits)
                 THEN [ok |-> TRUE, v |-> StrV(Digits[v.i + 1])]
                 ELSE [ok |-> FALSE, v |-> v]

\* The value a row has at an ORM path; a NULL foreign key on the way gives
\* a row that has no value there (ok = FALSE), which matches nothing.
RECURSIVE RowValue(_, _)
RowValue(v, comps) ==
  IF v.t # "obj" THEN [ok |-> FALSE, v |-> NoneV]
  ELSE LET a == Heap[v.o].attrs[Head(comps)]
       IN IF Len(comps) = 1
          THEN IF a.t = "obj" THEN [ok |-> TRUE, v |-> Heap[a.o].attrs[PK]]
               ELSE [ok |-> TRUE, v |-> a]
          ELSE RowValue(a, Tail(comps))

FilterWellFormed(filters) ==
  \A p \in DOMAIN filters : ResolvePath("Child", Split(p)).ok

FilterWellTyped(filters) ==
  \A p \in DOMAIN filters :
    ToPython(ResolvePath("Child", Split(p)).ty, filters[p]).ok

Matches(qs, filters) ==
  { o \in qs :
      \A p \in DOMAIN filters :
        LET row == RowValue(RefV(o), Split(p))
        IN row.ok /\ row.v = ToPython(ResolvePath("Child", Split(p)).ty, filters[p]).v }

\* queryset.get(**filters)
QuerysetGet(qs, filters) ==
  IF ~FilterWellFormed(filters) THEN [ret |-> "raise", exc |-> "FieldError", obj |-> ""]
  ELSE IF ~FilterWellTyped(filters) THEN [ret |-> "raise", exc |-> "ValueError", obj |-> ""]
  ELSE LET m == Matches(qs, filters)
       IN IF m = {} THEN [ret |-> "raise", exc |-> "DoesNotExist", obj |-> ""]
          ELSE IF Cardinality(m) > 1
               THEN [ret |-> "raise", exc |-> "MultipleObjectsReturned", obj |-> ""]
               ELSE [ret |-> "obj", exc |-> "", obj |-> CHOOSE o \in m : TRUE]

(***************************************************************************)
(* get_object                                                              *)
(***************************************************************************)
ObjOutcome(ret, exc, obj, queried, filters, view_kwargs) ==
  [ret |-> ret, exc |-> exc, obj |-> obj, queried |-> queried,
   filters |-> filters, view_kwargs |-> view_kwargs]

\* kwargs = {self.lookup_url_kwarg: lookup_value}
GetObjectFirstFilter(f, lookup_value) ==
  Update(EmptyDict, f.lookup_url_kwarg, lookup_value)

RECURSIVE GetObjectLoop(_, _, _, _, _)
GetObjectLoop(f, plk, view_kwargs, kwargs, i) ==
  IF i > Len(plk)
  THEN LET r == QuerysetGet(f.queryset[1], kwargs)
       IN ObjOutcome(r.ret, r.exc, r.obj, TRUE, kwargs, view_kwargs)
  ELSE LET parent_lookup_kwarg == plk[i][1]
       IN IF parent_lookup_kwarg \notin DOMAIN view_kwargs
          THEN ObjOutcome("raise", "KeyError", "", FALSE, EmptyDict, view_kwargs)
          ELSE GetObjectLoop(f, plk, view_kwargs,
                             Update(kwargs, plk[i][2], view_kwargs[parent_lookup_kwarg]),
                             i + 1)

GetObject(f, plk, view_kwargs) ==
  IF f.lookup_url_kwarg \notin DOMAIN view_kwargs
  THEN ObjOutcome("raise", "KeyError", "", FALSE, EmptyDict, view_kwargs)
  ELSE GetObjectLoop(f, plk, view_kwargs,
                     GetObjectFirstFilter(f, view_kwargs[f.lookup_url_kwarg]), 1)

(***************************************************************************)
(* to_internal_value.  The input is a non-string, a string that resolves   *)
(* to no URL pattern, or a URL, given as the match that resolve finds for  *)
(* it: the matched view's name and its keyword arguments.                  *)
(***************************************************************************)
TivOutcome(ret, exc, code, obj, superCode, fallback, filters) ==
  [ret |-> ret, exc |-> exc, code |-> code, obj |-> obj, superCode |-> superCode,
   fallback |-> fallback, filters |-> filters]

\* rest_framework's HyperlinkedRelatedField.to_internal_value, which line 90
\* calls; its self.get_object is the override of lines 67-83.
SuperToInternalValue(f, plk, data) ==
  IF data.kind = "nonstr"
  THEN [ret |-> "raise", exc |-> "ValidationError", code |-> "incorrect_type", obj |-> ""]
  ELSE IF data.kind = "str"
  THEN [ret |-> "raise", exc |-> "ValidationError", code |-> "no_match", obj |-> ""]
  ELSE IF data.view # f.view_name
  THEN [ret |-> "raise", exc |-> "ValidationError", code |-> "incorrect_match", obj |-> ""]
  ELSE LET r == GetObject(f, plk, data.kwargs)
       IN IF r.ret = "obj" THEN [ret |-> "obj", exc |-> "", code |-> "", obj |-> r.obj]
          ELSE IF r.exc \in {"DoesNotExist", "ObjectValueError", "ObjectTypeError"}
          THEN [ret |-> "raise", exc |-> "ValidationError", code |-> "does_not_exist",
                obj |-> ""]
          ELSE [ret |-> "raise", exc |-> r.exc, code |-> "", obj |-> ""]

\* self.get_queryset().get(**{self.lookup_field: data}) and its except clause
FallbackLookup(f, data) ==
  LET filters == Update(EmptyDict, f.lookup_field, data.v)
      r == QuerysetGet(f.queryset[1], filters)
  IN IF r.ret = "obj" THEN TivOutcome("obj", "", "", r.obj, "no_match", TRUE, filters)
     ELSE IF r.exc \in {"DoesNotExist", "ObjectValueError", "ObjectTypeError"}
     THEN TivOutcome("raise", "ValidationError", "does_not_exist", "", "no_match", TRUE,
                     filters)
     ELSE TivOutcome("raise", r.exc, "", "", "no_match", TRUE, filters)

\* A to_internal_value that falls back to the lookup on every validation error.
ToInternalValueAnyCode(f, plk, data) ==
  LET s == SuperToInternalValue(f, plk, data)
  IN IF s.ret = "obj" THEN TivOutcome("obj", "", "", s.obj, "", FALSE, EmptyDict)
     ELSE IF s.exc # "ValidationError"
     THEN TivOutcome("raise", s.exc, "", "", "", FALSE, EmptyDict)
     ELSE FallbackLookup(f, data)

ToInternalValue(f, plk, data) ==
  LET s == SuperToInternalValue(f, plk, data)
  IN IF s.ret = "obj" THEN TivOutcome("obj", "", "", s.obj, "", FALSE, EmptyDict)
     ELSE IF s.exc # "ValidationError"
     THEN TivOutcome("raise", s.exc, "", "", "", FALSE, EmptyDict)
     ELSE IF s.code # "no_match"
     THEN TivOutcome("raise", "ValidationError", s.code, "", s.code, FALSE, EmptyDict)
     ELSE FallbackLookup(f, data)

(***************************************************************************)
(* Construction.  A keyword argument is <<>> when the caller left it out   *)
(* and <<v>> when the caller passed v; view_name <<>> is None.             *)
(***************************************************************************)
\* The assertion message of line 104 (and of the base constructor).
ViewNameRequired == "The view_name argument is required."

\* A constructor that leaves the passed parent_lookup_kwargs unused.
PopParentLookupKwargsIgnored(kw) == [shared |-> TRUE, ownPlk |-> <<>>]

\* kwargs.pop('parent_lookup_kwargs', self.parent_lookup_kwargs)
PopParentLookupKwargs(kw) ==
  IF kw.parent_lookup_kwargs = <<>> THEN [shared |-> TRUE, ownPlk |-> <<>>]
  ELSE [shared |-> FALSE, ownPlk |-> kw.parent_lookup_kwargs[1]]

\* NestedHyperlinkedRelatedField.__init__ with the base constructors it calls
RelatedFieldInit(kind, kw) ==
  LET p == PopParentLookupKwargs(kw)
      lookup_field == IF kw.lookup_field = <<>> THEN PK ELSE kw.lookup_field[1]
      read_only == kw.read_only = <<TRUE>>
  IN IF kw.view_name = <<>>
     THEN [ok |-> FALSE, msg |-> ViewNameRequired]
     ELSE IF kw.queryset = <<>> /\ ~read_only
     THEN [ok |-> FALSE, msg |-> "Relational field must provide a queryset argument"]
     ELSE IF kw.queryset # <<>> /\ read_only
     THEN [ok |-> FALSE, msg |-> "Relational fields should not provide a queryset"]
     ELSE [ok |-> TRUE, msg |-> "",
           field |-> [kind |-> kind,
                      view_name |-> kw.view_name[1],
                      lookup_field |-> lookup_field,
                      lookup_url_kwarg |-> IF kw.lookup_url_kwarg = <<>> THEN lookup_field
                                           ELSE kw.lookup_url_kwarg[1],
                      shared |-> p.shared,
                      ownPlk |-> p.ownPlk,
                      argPlk |-> kw.parent_lookup_kwargs,
                      queryset |-> kw.queryset,
                      read_only |-> read_only,
                      source |-> kw.source]]

\* An identity constructor that sets read_only and source only when the
\* caller passed none (setdefault).
IdentityKwargsSetdefault(kw) ==
  [kw EXCEPT !.read_only = IF kw.read_only = <<>> THEN <<TRUE>> ELSE kw.read_only,
             !.source = IF kw.source = <<>> THEN <<"*">> ELSE kw.source]

\* lines 105-106: read_only is set to True and source to the star string
IdentityKwargs(kw) == [kw EXCEPT !.read_only = <<TRUE>>, !.source = <<"*">>]

\* NestedHyperlinkedIdentityField.__init__
IdentityFieldInit(kw) ==
  IF kw.view_name = <<>>
  THEN [ok |-> FALSE, msg |-> ViewNameRequired]
  ELSE RelatedFieldInit("identity", IdentityKwargs(kw))

(***************************************************************************)
(* The class attribute of lines 24-26.                                     *)
(***************************************************************************)
DefaultPlk == << <<PARENT_PK, PARENT__PK>> >>

(***************************************************************************)
(* The inputs the operations are called with.                              *)
(***************************************************************************)
Opt(S) == {<<>>} \cup {<<x>> : x \in S}

TwoLevelPlk == << <<PARENT_PK, PARENT__PK>>, <<GRAND_PK, PARENT__PARENT__PK>> >>
TripleUnderscorePlk == << <<PARENT_PK, PARENT___PK>> >>
ParentSlugPlk == << <<PARENT_PK, PARENT__SLUG>> >>
CollidingPlk == << <<PK, PARENT__PK>> >>

PlkChoices == {<<>>, TwoLevelPlk, TripleUnderscorePlk, ParentSlugPlk, CollidingPlk}

RelatedKwargs ==
  { kw \in [view_name : Opt({"child-detail", "child-flat"}),
            lookup_field : Opt({SLUG}),
            lookup_url_kwarg : Opt({PK, CHILD_PK}),
            parent_lookup_kwargs : Opt(PlkChoices),
            queryset : Opt({ChildQueryset}),
            read_only : Opt({TRUE}),
            source : {<<>>}] :
      /\ kw.lookup_field = <<>> => kw.lookup_url_kwarg # <<PK>>
      /\ kw.lookup_field # <<>> => kw.lookup_url_kwarg \in {<<>>, <<PK>>}
      /\ \/ kw.parent_lookup_kwargs \in {<<>>, <<TwoLevelPlk>>}
         \/ kw.lookup_field = <<>> /\ kw.lookup_url_kwarg = <<>>
      /\ (kw.read_only # <<>> \/ kw.view_name = <<"child-flat">>) =>
           /\ kw.lookup_field = <<>> /\ kw.lookup_url_kwarg = <<>>
           /\ kw.parent_lookup_kwargs \in {<<>>, <<TwoLevelPlk>>} }

IdentityKwargsChoices ==
  [view_name : Opt({"child-detail"}),
   lookup_field : {<<>>},
   lookup_url_kwarg : {<<>>},
   parent_lookup_kwargs : Opt({TwoLevelPlk}),
   queryset : Opt({ChildQueryset}),
   read_only : Opt({TRUE, FALSE}),
   source : Opt({"*", "owner"})]

ViewKwargsChoices ==
  { (PK :> StrV("1")) @@ (PARENT_PK :> StrV("1")),
    (PK :> StrV("2")) @@ (PARENT_PK :> StrV("1")),
    (PK :> StrV("abc")) @@ (PARENT_PK :> StrV("1")),
    (PK :> StrV("1")),
    (PARENT_PK :> StrV("1")),
    (PK :> StrV("1")) @@ (PARENT_PK :> StrV("1")) @@ (GRAND_PK :> StrV("1")),
    (CHILD_PK :> StrV("1")) @@ (PARENT_PK :> StrV("1")),
    (PK :> StrV("a")) @@ (PARENT_PK :> StrV("1")),
    (SLUG :> StrV("a")) @@ (PARENT_PK :> StrV("1")),
    (SLUG :> StrV("b")) @@ (PARENT_PK :> StrV("1")) }

DataChoices ==
  {[kind |-> "nonstr", v |-> IntV(1), view |-> "", kwargs |-> EmptyDict]}
  \cup {[kind |-> "str", v |-> StrV(x), view |-> "", kwargs |-> EmptyDict] :
          x \in {"1", "3", "abc", "a", "zz"}}
  \cup {[kind |-> "url", v |-> StrV("/url/"), view |-> "child-detail",
         kwargs |-> (PK :> StrV(x)) @@ (PARENT_PK :> StrV("1"))] :
          x \in {"1", "2", "abc"}}
  \cup {[kind |-> "url", v |-> StrV("/url/"), view |-> "child-flat",
         kwargs |-> (PK :> StrV("1"))]}

(***************************************************************************)
(* The state machine.  fields is the set of field instances constructed so *)
(* far; last is the call in progress: an operation is called when no call  *)
(* is pending, and Return hands its outcome to the caller.                 *)
(***************************************************************************)
Init ==
  /\ classPlk = DefaultPlk
  /\ fields = {}
  /\ last = [op |-> "none"]

Idle == last.op = "none"

Construct(kind, kw, r) ==
  /\ fields' = IF r.ok THEN fields \cup {r.field} ELSE fields
  /\ last' = [op |-> "init", kind |-> kind, kw |-> kw, ok |-> r.ok, msg |-> r.msg,
              before |-> fields]
  /\ UNCHANGED classPlk

NewRelatedField ==
  /\ Idle
  /\ Cardinality(fields) < MaxFields
  /\ \E kw \in RelatedKwargs : Construct("related", kw, RelatedFieldInit("related", kw))

NewIdentityField ==
  /\ Idle
  /\ Cardinality(fields) < MaxFields
  /\ \E kw \in IdentityKwargsChoices : Construct("identity", kw, IdentityFieldInit(kw))

CallGetUrl ==
  /\ Idle
  /\ \E f \in fields, obj \in Objects :
       last' = [op |-> "get_url", f |-> f, obj |-> obj,
                out |-> GetUrl(f, Plk(f, classPlk), obj)]
  /\ UNCHANGED <<classPlk, fields>>

\* get_object and to_internal_value consult get_queryset(): they are called
\* on fields that have a queryset.
CallGetObject ==
  /\ Idle
  /\ \E f \in fields, view_kwargs \in ViewKwargsChoices :
       /\ f.queryset # <<>>
       /\ last' = [op |-> "get_object", f |-> f, view_kwargs |-> view_kwargs, of |-> "",
                   out |-> GetObject(f, Plk(f, classPlk), view_kwargs)]
  /\ UNCHANGED <<classPlk, fields>>

\* get_object on the kwargs that the pending get_url of a saved object of
\* the queryset handed to reverse, all parent paths having resolved
CallGetObjectOfUrl ==
  /\ last.op = "get_url"
  /\ last.f.queryset # <<>>
  /\ last.obj \in last.f.queryset[1]
  /\ ~last.out.viaSuper
  /\ Len(last.out.reverseCalls) = 1
  /\ last' = [op |-> "get_object", f |-> last.f,
              view_kwargs |-> last.out.reverseCalls[1].kwargs, of |-> last.obj,
              out |-> GetObject(last.f, Plk(last.f, classPlk),
                                last.out.reverseCalls[1].kwargs)]
  /\ UNCHANGED <<classPlk, fields>>

CallToInternalValue ==
  /\ Idle
  /\ \E f \in fields, data \in DataChoices :
       /\ f.queryset # <<>>
       /\ last' = [op |-> "to_internal_value", f |-> f, data |-> data,
                   out |-> ToInternalValue(f, Plk(f, classPlk), data)]
  /\ UNCHANGED <<classPlk, fields>>

Return ==
  /\ ~Idle
  /\ last' = [op |-> "none"]
  /\ UNCHANGED <<classPlk, fields>>

Next ==
  \/ NewRelatedField
  \/ NewIdentityField
  \/ CallGetUrl
  \/ CallGetObject
  \/ CallGetObjectOfUrl
  \/ CallToInternalValue
  \/ Return

Spec == Init /\ [][Next]_vars

(***************************************************************************)
(* Properties.                                                             *)
(*                                                                         *)
(* What the properties expect is stated without the operators of get_url:  *)
(* the attribute names of each declared path are written out.              *)
(***************************************************************************)
PathNames(path) ==
  IF path = PARENT__PK THEN <<PARENT, PK>>
  ELSE IF path = PARENT__PARENT__PK THEN <<PARENT, PARENT, PK>>
  ELSE IF path = PARENT___PK THEN <<PARENT, <<"_", "pk">> >>
  ELSE IF path = PARENT__SLUG THEN <<PARENT, SLUG>>
  ELSE <<path>>

\* obj.n1.n2...: [ok, v], ok = FALSE when an attribute on the way is missing
RECURSIVE Follow(_, _)
Follow(v, names) ==
  IF names = <<>> THEN [ok |-> TRUE, v |-> v]
  ELSE IF v.t = "obj" /\ Head(names) \in DOMAIN Heap[v.o].attrs
       THEN Follow(Heap[v.o].attrs[Head(names)], Tail(names))
       ELSE [ok |-> FALSE, v |-> NoneV]

PathValue(obj, path) == Follow(RefV(obj), PathNames(path))

PkUnset(obj) ==
  PK \in DOMAIN Heap[obj].attrs /\ Heap[obj].attrs[PK].t \in {"none", "str"}
  /\ Heap[obj].attrs[PK].s = ""

PkSet(obj) == PK \in DOMAIN Heap[obj].attrs /\ ~PkUnset(obj)

HasLookupField(f, obj) == f.lookup_field \in DOMAIN Heap[obj].attrs

LastPlk == Plk(last.f, classPlk)

AllPathsResolve(plk, obj) == \A i \in 1..Len(plk) : PathValue(obj, plk[i][2]).ok

\* C1 as stated: for an object whose pk is set and on which every parent
\* path resolves, get_url calls reverse exactly once, with a dictionary whose
\* keys are lookup_url_kwarg and the keys of parent_lookup_kwargs, mapping
\* lookup_url_kwarg to the object's lookup_field value and each parent key to
\* the value at the end of its path.
C1_AsStated ==
  (last.op = "get_url" /\ PkSet(last.obj) /\ AllPathsResolve(LastPlk, last.obj)) =>
    /\ Len(last.out.reverseCalls) = 1
    /\ LET kwargs == last.out.reverseCalls[1].kwargs
       IN /\ DOMAIN kwargs = {last.f.lookup_url_kwarg} \cup PlkKeys(LastPlk)
          /\ kwargs[last.f.lookup_url_kwarg] = Heap[last.obj].attrs[last.f.lookup_field]
          /\ \A k \in PlkKeys(LastPlk) :
               kwargs[k] = PathValue(last.obj, PlkPath(LastPlk, k)).v

\* C1 as amended: the same for an object that also has the lookup_field
\* attribute, except that lookup_url_kwarg maps to the object's lookup_field
\* value only when it is not itself a key of parent_lookup_kwargs; when it is,
\* the value of that parent path is stored under it.
C1_ReverseKwargs ==
  (/\ last.op = "get_url"
   /\ PkSet(last.obj)
   /\ HasLookupField(last.f, last.obj)
   /\ AllPathsResolve(LastPlk, last.obj)) =>
    /\ Len(last.out.reverseCalls) = 1
    /\ ~last.out.viaSuper
    /\ LET kwargs == last.out.reverseCalls[1].kwargs
       IN /\ DOMAIN kwargs = {last.f.lookup_url_kwarg} \cup PlkKeys(LastPlk)
          /\ last.f.lookup_url_kwarg \notin PlkKeys(LastPlk) =>
               kwargs[last.f.lookup_url_kwarg] = Heap[last.obj].attrs[last.f.lookup_field]
          /\ \A k \in PlkKeys(LastPlk) :
               kwargs[k] = PathValue(last.obj, PlkPath(LastPlk, k)).v

\* get_url of an object with two parent levels handed reverse three kwargs
C1_Witness ==
  /\ last.op = "get_url"
  /\ PkSet(last.obj)
  /\ AllPathsResolve(LastPlk, last.obj)
  /\ Len(LastPlk) = 2
  /\ Len(last.out.reverseCalls) = 1
  /\ Cardinality(DOMAIN last.out.reverseCalls[1].kwargs) = 3

\* C6: when a parent path raises AttributeError (the call having reached
\* the loop), get_url returns what the base get_url returns: reverse is called
\* once, with lookup_url_kwarg mapped to the object's lookup_field value and
\* nothing else, and no AttributeError comes out.
C6_FallsBackToBase ==
  (/\ last.op = "get_url"
   /\ ~PkUnset(last.obj)
   /\ HasLookupField(last.f, last.obj)
   /\ ~AllPathsResolve(LastPlk, last.obj)) =>
    /\ last.out.viaSuper
    /\ last.out.exc # "AttributeError"
    /\ Len(last.out.reverseCalls) = 1
    /\ last.out.reverseCalls[1].kwargs =
         (last.f.lookup_url_kwarg :> Heap[last.obj].attrs[last.f.lookup_field])
    /\ LET r == Reverse(last.f.view_name, last.out.reverseCalls[1].kwargs)
       IN last.out.ret = r.ret /\ last.out.exc = r.exc

\* the second parent path failed after the first had resolved
C6_Witness ==
  /\ last.op = "get_url"
  /\ Len(LastPlk) = 2
  /\ PathValue(last.obj, LastPlk[1][2]).ok
  /\ ~PathValue(last.obj, LastPlk[2][2]).ok
  /\ last.out.viaSuper
  /\ last.out.walked = 2

\* C7: for an object whose pk attribute is None or '', get_url returns None
\* and reads no lookup_field, walks no parent path and does not call reverse;
\* for any other object it does not return None.
C7_UnsavedReturnsNone ==
  last.op = "get_url" =>
    /\ PkUnset(last.obj) =>
         /\ last.out.ret = "None"
         /\ last.out.unsaved
         /\ last.out.readLookup = 0
         /\ last.out.walked = 0
         /\ last.out.reverseCalls = <<>>
    /\ ~PkUnset(last.obj) => (~last.out.unsaved /\ last.out.ret # "None")

\* get_url of an object whose pk is the empty string, on a field with parents
C7_Witness ==
  /\ last.op = "get_url"
  /\ Heap[last.obj].attrs[PK] = StrV("")
  /\ Len(LastPlk) > 0
  /\ last.out.ret = "None"

\* The filters of a query, as the set of its <<ORM path, value>> pairs.
FilterPairs(filters) == {<<p, filters[p]>> : p \in DOMAIN filters}

HasAllKeys(f, plk, view_kwargs) ==
  {f.lookup_url_kwarg} \cup PlkKeys(plk) \subseteq DOMAIN view_kwargs

\* C2 as stated: when view_kwargs has lookup_url_kwarg and every parent key,
\* get_object queries the queryset with exactly the filters lookup_field =
\* view_kwargs[lookup_url_kwarg] and, for each parent key k, the path
\* parent_lookup_kwargs[k] = view_kwargs[k].
C2_AsStated ==
  (last.op = "get_object" /\ HasAllKeys(last.f, LastPlk, last.view_kwargs)) =>
    /\ last.out.queried
    /\ FilterPairs(last.out.filters) =
         {<<last.f.lookup_field, last.view_kwargs[last.f.lookup_url_kwarg]>>}
         \cup {<<PlkPath(LastPlk, k), last.view_kwargs[k]>> : k \in PlkKeys(LastPlk)}

\* C3 as stated, on the configurations whose lookup_url_kwarg is no key of
\* parent_lookup_kwargs: get_object on the kwargs that get_url of a saved
\* object o of the queryset handed to reverse makes a query that o satisfies,
\* and returns o when o is the only object that satisfies it.
C3_AsStated ==
  (/\ last.op = "get_object"
   /\ last.of # ""
   /\ last.f.lookup_url_kwarg \notin PlkKeys(LastPlk)) =>
    /\ last.out.queried
    /\ FilterWellFormed(last.out.filters)
    /\ FilterWellTyped(last.out.filters)
    /\ last.of \in Matches(last.f.queryset[1], last.out.filters)
    /\ Matches(last.f.queryset[1], last.out.filters) = {last.of} =>
         (last.out.ret = "obj" /\ last.out.obj = last.of)

\* C4 as stated: get_object returns an object of the queryset or raises
\* ObjectDoesNotExist, and nothing else.
C4_AsStated ==
  last.op = "get_object" =>
    \/ last.out.ret = "obj" /\ last.out.obj \in last.f.queryset[1]
    \/ last.out.ret = "raise" /\ last.out.exc = "DoesNotExist"

\* C5: every identity field that exists is read-only with source '*',
\* whatever the caller passed, and holds the parent_lookup_kwargs the related
\* constructor gives it (the passed mapping, else the default); constructing
\* one without a view_name fails with the view_name assertion and adds no field.
C5_IdentityField ==
  /\ \A f \in fields :
       f.kind = "identity" =>
         /\ f.read_only
         /\ f.source = <<"*">>
         /\ Plk(f, classPlk) = IF f.argPlk = <<>> THEN DefaultPlk ELSE f.argPlk[1]
  /\ (last.op = "init" /\ last.kind = "identity") =>
       /\ last.kw.view_name = <<>> =>
            (~last.ok /\ last.msg = ViewNameRequired /\ fields = last.before)
       /\ last.ok =>
            \E f \in fields :
              /\ f.kind = "identity"
              /\ f.view_name = last.kw.view_name[1]
              /\ f.argPlk = last.kw.parent_lookup_kwargs

\* an identity field was constructed by a caller who passed read_only = False
\* and another source
C5_Witness ==
  /\ last.op = "init"
  /\ last.kind = "identity"
  /\ last.ok
  /\ last.kw.read_only = <<FALSE>>
  /\ last.kw.source = <<"owner">>
  /\ \E f \in fields : f.kind = "identity" /\ f.argPlk = last.kw.parent_lookup_kwargs

\* The attribute value v equals the input string x (as the field reads it).
EqualsInput(v, x) ==
  \/ v.t = "str" /\ v.s = x
  \/ v.t = "int" /\ v.i + 1 \in 1..Len(Digits) /\ Digits[v.i + 1] = x

HavingValue(f, x) ==
  {o \in f.queryset[1] : EqualsInput(Heap[o].attrs[f.lookup_field], x)}

\* C8: to_internal_value returns the base result unchanged when the base
\* succeeds; re-raises a validation error of any code but no_match without the
\* fallback lookup; and on no_match looks the input up as lookup_field: what
\* the lookup returns is an object of the queryset whose lookup_field equals
\* the input, and the one object that has that value is returned.
C8_TranslatesNoMatchOnly ==
  last.op = "to_internal_value" =>
    LET s == SuperToInternalValue(last.f, LastPlk, last.data)
    IN /\ s.ret = "obj" =>
            (last.out.ret = "obj" /\ last.out.obj = s.obj /\ ~last.out.fallback)
       /\ (s.exc = "ValidationError" /\ s.code # "no_match") =>
            /\ last.out.ret = "raise"
            /\ last.out.exc = "ValidationError"
            /\ last.out.code = s.code
            /\ ~last.out.fallback
       /\ (s.exc = "ValidationError" /\ s.code = "no_match") =>
            /\ last.out.fallback
            /\ FilterPairs(last.out.filters) = {<<last.f.lookup_field, last.data.v>>}
            /\ last.out.ret = "obj" =>
                 last.out.obj \in HavingValue(last.f, last.data.v.s)
            /\ Cardinality(HavingValue(last.f, last.data.v.s)) = 1 =>
                 (last.out.ret = "obj"
                  /\ last.out.obj \in HavingValue(last.f, last.data.v.s))

\* the fallback lookup of a lookup value returned its object
C8_Witness ==
  /\ last.op = "to_internal_value"
  /\ last.data.kind = "str"
  /\ last.out.fallback
  /\ last.out.ret = "obj"

\* C9 as stated: after no_match, when no object of the queryset has the input
\* as its lookup_field value (none has it, or the input has not the form of
\* the field), to_internal_value ends in the does_not_exist validation
\* failure; and what it returns is always an object of the queryset.
C9_AsStated ==
  last.op = "to_internal_value" =>
    /\ (last.out.superCode = "no_match" /\ HavingValue(last.f, last.data.v.s) = {}) =>
         /\ last.out.ret = "raise"
         /\ last.out.exc = "ValidationError"
         /\ last.out.code = "does_not_exist"
    /\ last.out.ret \in {"obj", "raise"}
    /\ last.out.ret = "obj" => last.out.obj \in last.f.queryset[1]

\* C10: every field's parent_lookup_kwargs is the mapping its constructor was
\* passed, or the class default when it was passed none; the class default is
\* the mapping of lines 24-26; and get_object leaves its view_kwargs as they
\* were.  This holds in every state, so after any sequence of calls.
C10_ParentLookupKwargsKept ==
  /\ classPlk = << <<PARENT_PK, PARENT__PK>> >>
  /\ \A f \in fields :
       Plk(f, classPlk) = IF f.argPlk = <<>> THEN << <<PARENT_PK, PARENT__PK>> >>
                          ELSE f.argPlk[1]
  /\ last.op = "get_object" => last.out.view_kwargs = last.view_kwargs
  /\ last.op \in {"get_url", "get_object", "to_internal_value"} => last.f \in fields

\* two fields, one on the shared default and one with its own mapping, after
\* a get_object call that reached the queryset
C10_Witness ==
  /\ last.op = "get_object"
  /\ last.out.queried
  /\ \E f, g \in fields : f.shared /\ ~g.shared /\ g.ownPlk # <<>>

====
